---- MODULE Spec2Model ----
(***************************************************************************)
(* A model of libbsdf's sample grid (lb::SampleSet), of the DDR writer     *)
(* (lb::DdrWriter: validate, convert, arrange, output) and of the parallel *)
(* tabulation of a reflectance model (setupTabularBrdf).                   *)
(*                                                                         *)
(* Numbers.  Sample values are integers.  Angles are integers in units of  *)
(* 1/90 degree (Deg(d) = 90*d), so that the exponent-2 warp of the         *)
(* specular-polar axis stays integral.  A float that is not finite is one  *)
(* of the three values NaN, PosInf, NegInf.                                *)
(***************************************************************************)
EXTENDS Integers, Sequences, FiniteSets, TLC

(***************************************************************************)
(* Bounds of the exploration.                                              *)
(***************************************************************************)
MaxAngles      == 2   \* largest axis size handed to SampleSet
MaxWavelengths == 2   \* largest spectral channel count handed to SampleSet
MaxOps         == 2   \* SampleSet operations after construction
NumThreads     == 2   \* threads of the OpenMP team
MaxLen         == 3   \* longest array handed to the array utilities
MaxSlices      == 2   \* largest axis-2 size of a grid handed to setupTabularBrdf

VARIABLES
    \* ---- lb::SampleSet under test
    ss,         \* the SampleSet object
    ssState,    \* "none" (not constructed), "live", "aborted" (assert failed)
    ssArgs,     \* the arguments of the constructor call
    ssLast,     \* the last operation and the sample array before it
    ssStale,    \* resizeAngles has run since the last resizeWavelengths
    ssOps,      \* number of operations after construction
    \* ---- lb::DdrWriter and its caller
    heap,       \* the Brdf objects; heap[InputId] is the caller's Brdf
    arrangedId, \* the object a call of arrange returned to the caller, or 0
    file,       \* the destination file of the last write
    stream,     \* the stream handed to the last output
    call,       \* the last call: entry point and arguments
    result,     \* what the last call returned (a bool, or an object id)
    ret,        \* the object the last convert or arrange returned
    trace,      \* the steps the last call went through, in order
    \* ---- reflectance_model_utility::setupTabularBrdf
    tab,        \* the sample grid of the Brdf handed to setupTabularBrdf
    tabArgs,    \* the arguments of the call and the grid before it
    tabPc,      \* "none", "called", "loop" (the parallel region), "returned"
    pending,    \* the iterations (values of i2) not yet handed to a thread
    thread,     \* per thread: where it is, its iteration, its place in the nest
    spSlot,     \* the storage of the threads' sp variables
    owner,      \* per iteration, the thread it was handed to (0: none yet)
    written,    \* per cell, who has written it, in order (0: fillBackSide)
    tabRet,     \* the value returned
    \* ---- array_util and the flag computations, called on their own
    utilIn,     \* the arguments
    utilCall,   \* the function called, or "none"
    utilOut     \* what it returned

ssVars     == <<ss, ssState, ssArgs, ssLast, ssStale, ssOps>>
writerVars == <<heap, arrangedId, file, stream, call, result, ret, trace>>
setupVars  == <<tab, tabArgs, tabPc, pending, thread, spSlot, owner, written, tabRet>>
utilVars   == <<utilIn, utilCall, utilOut>>
vars       == <<ssVars, writerVars, setupVars, utilVars>>

nonSSVars     == <<writerVars, setupVars, utilVars>>
nonWriterVars == <<ssVars, setupVars, utilVars>>
nonSetupVars  == <<ssVars, writerVars, utilVars>>
nonUtilVars   == <<ssVars, writerVars, setupVars>>

(***************************************************************************)
(* Floats and angles.                                                      *)
(***************************************************************************)
NaN    == 99999999
PosInf == 99999998
NegInf == -99999998
Uninit == 99999997

IsFinite(x) == x \notin {NaN, PosInf, NegInf}
AllFinite(arr) == \A i \in 1..Len(arr) : IsFinite(arr[i])

Deg(d) == 90 * d

\* pi as a factor is PI_F / FixedOne.
FixedOne == 1000
PI_F     == 3142

\* The comparison tolerance is far below one angle unit: Fine(a) is the angle
\* a in units of 1/10000 angle unit, and EPSILON_F is in these units.
Fine(a) == 10000 * a
EPSILON_F == 6
OutsideAxis == -1

ColorModels == {"RGB_MODEL", "XYZ_MODEL", "MONOCHROMATIC_MODEL", "SPECTRAL_MODEL"}

Max(a, b) == IF a >= b THEN a ELSE b
Min(a, b) == IF a <= b THEN a ELSE b

(***************************************************************************)
(* Containers.  Eigen's resize keeps an array of the same size and         *)
(* otherwise allocates one whose elements are not initialised (Uninit     *)
(* marks such an element: its value is indeterminate until it is set);     *)
(* std::vector's resize keeps the leading elements and appends             *)
(* default-constructed (empty) spectra.                                    *)
(***************************************************************************)
Zero(n) == [i \in 1..n |-> 0]

ArrayResize(arr, n) == IF Len(arr) = n THEN arr ELSE [i \in 1..n |-> Uninit]

VectorResize(vec, n) ==
    [i \in 1..n |-> IF i <= Len(vec) THEN vec[i] ELSE <<>>]

(***************************************************************************)
(* lb::SampleSet                                                           *)
(***************************************************************************)
EmptySampleSet ==
    [angles0 |-> <<>>, angles1 |-> <<>>, angles2 |-> <<>>, angles3 |-> <<>>,
     wavelengths |-> <<>>, colorModel |-> "RGB_MODEL", spectra |-> <<>>,
     equalIntervalAngles0 |-> FALSE, equalIntervalAngles1 |-> FALSE,
     equalIntervalAngles2 |-> FALSE, equalIntervalAngles3 |-> FALSE,
     oneSide |-> FALSE]

getNumAngles0(s) == Len(s.angles0)
getNumAngles1(s) == Len(s.angles1)
getNumAngles2(s) == Len(s.angles2)
getNumAngles3(s) == Len(s.angles3)
getNumWavelengths(s) == Len(s.wavelengths)

NumSamples(s) ==
    getNumAngles0(s) * getNumAngles1(s) * getNumAngles2(s) * getNumAngles3(s)

\* Position of cell (i0,i1,i2,i3), indices from 0, in the sample array.
getIndex(s, i0, i1, i2, i3) ==
    i0 + getNumAngles0(s) * i1
       + getNumAngles0(s) * getNumAngles1(s) * i2
       + getNumAngles0(s) * getNumAngles1(s) * getNumAngles2(s) * i3

getSpectrum(s, i0, i1, i2, i3) == s.spectra[getIndex(s, i0, i1, i2, i3) + 1]

setSpectrum(s, i0, i1, i2, i3, sp) ==
    [s EXCEPT !.spectra[getIndex(s, i0, i1, i2, i3) + 1] = sp]

AnglesArePositive(n0, n1, n2, n3) == n0 > 0 /\ n1 > 0 /\ n2 > 0 /\ n3 > 0

resizeAnglesResettingFlags(s, n0, n1, n2, n3) ==
    [s EXCEPT !.angles0 = ArrayResize(s.angles0, n0),
              !.angles1 = ArrayResize(s.angles1, n1),
              !.angles2 = ArrayResize(s.angles2, n2),
              !.angles3 = ArrayResize(s.angles3, n3),
              !.spectra = VectorResize(s.spectra, n0 * n1 * n2 * n3),
              !.equalIntervalAngles0 = FALSE, !.equalIntervalAngles1 = FALSE,
              !.equalIntervalAngles2 = FALSE, !.equalIntervalAngles3 = FALSE,
              !.oneSide = FALSE]
resizeAngles(s, n0, n1, n2, n3) ==
    [s EXCEPT !.angles0 = ArrayResize(s.angles0, n0),
              !.angles1 = ArrayResize(s.angles1, n1),
              !.angles2 = ArrayResize(s.angles2, n2),
              !.angles3 = ArrayResize(s.angles3, n3),
              !.spectra = VectorResize(s.spectra, n0 * n1 * n2 * n3)]

resizeWavelengthsKeepingSpectra(s, n) ==
    [s EXCEPT !.wavelengths = ArrayResize(s.wavelengths, n)]
resizeWavelengths(s, n) ==
    [s EXCEPT !.spectra = [i \in 1..Len(s.spectra) |->
                              IF i <= NumSamples(s) THEN Zero(n)
                                                    ELSE s.spectra[i]],
              !.wavelengths = ArrayResize(s.wavelengths, n)]

\* The wavelength count the constructor asks for.
CtorNumWavelengthsAllThree(colorModel, numWavelengths) == 3
CtorNumWavelengths(colorModel, numWavelengths) ==
    IF colorModel = "SPECTRAL_MODEL" THEN numWavelengths
    ELSE IF colorModel = "MONOCHROMATIC_MODEL" THEN 1
    ELSE 3

\* The constructor's asserts (its own and resizeWavelengths').
CtorAssertsHold(n0, n1, n2, n3, colorModel, numWavelengths) ==
    /\ AnglesArePositive(n0, n1, n2, n3)
    /\ CtorNumWavelengths(colorModel, numWavelengths) > 0

SampleSetCtor(n0, n1, n2, n3, colorModel, numWavelengths) ==
    LET a == resizeAngles(EmptySampleSet, n0, n1, n2, n3)
        c == [a EXCEPT !.colorModel = colorModel]
        w == resizeWavelengths(c, CtorNumWavelengths(colorModel, numWavelengths))
    IN  IF colorModel = "SPECTRAL_MODEL" THEN w
        ELSE [w EXCEPT !.wavelengths = Zero(Len(w.wavelengths))]

\* array_util::isEqualInterval: every element equals i * last / (n - 1);
\* both sides are multiplied by n - 1 to stay in the integers.
isEqual(lhs, rhs) == lhs = rhs

isEqualIntervalFromFirst(arr) ==
    IF Len(arr) <= 2 THEN FALSE
    ELSE \A i \in 0..(Len(arr) - 1) :
            isEqual((arr[i + 1] - arr[1]) * (Len(arr) - 1),
                    (arr[Len(arr)] - arr[1]) * i)
isEqualInterval(arr) ==
    IF Len(arr) <= 2 THEN FALSE
    ELSE \A i \in 0..(Len(arr) - 1) :
            isEqual(arr[i + 1] * (Len(arr) - 1), arr[Len(arr)] * i)

updateEqualIntervalAngles(s) ==
    [s EXCEPT !.equalIntervalAngles0 = isEqualInterval(s.angles0),
              !.equalIntervalAngles1 = isEqualInterval(s.angles1),
              !.equalIntervalAngles2 = isEqualInterval(s.angles2),
              !.equalIntervalAngles3 = isEqualInterval(s.angles3)]

\* SampleSet::updateOneSide on an axis given in fine units, with
\* offset = EPSILON_F * 2 and the bounds of the code: (offset, PI - offset*PI)
\* and (PI + offset*PI, 2*PI - offset*2*PI).
oneSideExact(angles) ==
    LET containing_0_PI ==
            \E i \in 1..Len(angles) :
                angles[i] > 0 /\ angles[i] < Fine(Deg(180))
        containing_PI_2PI ==
            \E i \in 1..Len(angles) :
                angles[i] > Fine(Deg(180)) /\ angles[i] < Fine(Deg(360))
    IN  ~containing_0_PI \/ ~containing_PI_2PI
oneSide(angles) ==
    LET offset == EPSILON_F * 2
        offsetPI == (offset * PI_F) \div FixedOne
        offset2PI == (offset * 2 * PI_F) \div FixedOne
        containing_0_PI ==
            \E i \in 1..Len(angles) :
                angles[i] > offset /\ angles[i] < Fine(Deg(180)) - offsetPI
        containing_PI_2PI ==
            \E i \in 1..Len(angles) :
                /\ angles[i] > Fine(Deg(180)) + offsetPI
                /\ angles[i] < Fine(Deg(360)) - offset2PI
    IN  ~containing_0_PI \/ ~containing_PI_2PI

\* An angle that is not a number (or not initialised) satisfies none of the
\* comparisons: it is handed on as a value outside both intervals.
FineAngles(arr) ==
    [i \in 1..Len(arr) |->
        IF IsFinite(arr[i]) /\ arr[i] # Uninit THEN Fine(arr[i]) ELSE OutsideAxis]

updateOneSide(s) == [s EXCEPT !.oneSide = oneSide(FineAngles(s.angles3))]

updateAngleAttributes(s) == updateOneSide(updateEqualIntervalAngles(s))

isIsotropic(s) == getNumAngles1(s) = 1

\* SampleSet::validate: every cell, the four angle axes and the wavelengths.
validateSpectraOnly(s) ==
    \A i0 \in 0..(getNumAngles0(s) - 1), i1 \in 0..(getNumAngles1(s) - 1),
       i2 \in 0..(getNumAngles2(s) - 1), i3 \in 0..(getNumAngles3(s) - 1) :
        AllFinite(getSpectrum(s, i0, i1, i2, i3))
validate(s) ==
    LET spectraValid ==
            \A i0 \in 0..(getNumAngles0(s) - 1), i1 \in 0..(getNumAngles1(s) - 1),
               i2 \in 0..(getNumAngles2(s) - 1), i3 \in 0..(getNumAngles3(s) - 1) :
                AllFinite(getSpectrum(s, i0, i1, i2, i3))
    IN  /\ spectraValid
        /\ AllFinite(s.angles0)
        /\ AllFinite(s.angles1)
        /\ AllFinite(s.angles2)
        /\ AllFinite(s.angles3)
        /\ AllFinite(s.wavelengths)

\* What validate logs: a warning for every cell that is not finite, in the
\* order of the loops (i0 outermost), then one line for the spectra, one for
\* each angle axis and one for the wavelengths.
hasNaN(arr) == \E i \in 1..Len(arr) : arr[i] = NaN

RECURSIVE CellWarnings(_, _)
CellWarnings(s, k) ==
    IF k > NumSamples(s) THEN <<>>
    ELSE LET n1 == getNumAngles1(s)
             n2 == getNumAngles2(s)
             n3 == getNumAngles3(s)
             sp == getSpectrum(s, (k - 1) \div (n1 * n2 * n3),
                               ((k - 1) \div (n2 * n3)) % n1,
                               ((k - 1) \div n3) % n2, (k - 1) % n3)
         IN  (IF AllFinite(sp) THEN <<>>
              ELSE IF hasNaN(sp) THEN <<"spectrum NaN">>
              ELSE <<"spectrum INF">>)
             \o CellWarnings(s, k + 1)

validateLog(s) ==
    CellWarnings(s, 1)
    \o <<IF CellWarnings(s, 1) = <<>> THEN "spectra valid" ELSE "spectra invalid">>
    \o <<IF AllFinite(s.angles0) THEN "angle0 valid" ELSE "angle0 invalid">>
    \o <<IF AllFinite(s.angles1) THEN "angle1 valid" ELSE "angle1 invalid">>
    \o <<IF AllFinite(s.angles2) THEN "angle2 valid" ELSE "angle2 invalid">>
    \o <<IF AllFinite(s.angles3) THEN "angle3 valid" ELSE "angle3 invalid">>
    \o <<IF AllFinite(s.wavelengths) THEN "wavelengths valid"
         ELSE "wavelengths invalid">>

(***************************************************************************)
(* Specification of the SampleSet operations.                              *)
(***************************************************************************)
NoWriterCall ==
    [name |-> "none", id |-> 0, dataType |-> "BRDF_DATA", comments |-> "",
     openable |-> TRUE, fileBefore |-> [exists |-> FALSE, content |-> <<>>]]
NoObject == [id |-> 0, numInTheta |-> 0, numInPhi |-> 0, numSpecTheta |-> 0,
             numSpecPhi |-> 0, specTheta |-> <<>>]

\* The writer is not in use.
WriterIdle ==
    /\ heap = <<>>
    /\ arrangedId = 0
    /\ file = [exists |-> FALSE, content |-> <<>>]
    /\ stream = <<>>
    /\ call = NoWriterCall
    /\ result = FALSE
    /\ ret = NoObject
    /\ trace = <<>>

\* No SampleSet is under test.
SampleSetIdle ==
    /\ ss = EmptySampleSet
    /\ ssState = "none"
    /\ ssArgs = <<>>
    /\ ssLast = [op |-> "none", before |-> <<>>]
    /\ ssStale = FALSE
    /\ ssOps = 0

\* setupTabularBrdf has not been called.
SetupIdle ==
    /\ tab = EmptySampleSet
    /\ tabArgs = <<>>
    /\ tabPc = "none"
    /\ pending = {}
    /\ thread = <<>>
    /\ spSlot = <<>>
    /\ owner = <<>>
    /\ written = <<>>
    /\ tabRet = FALSE

\* No array utility has been called.
NoArguments == [kind |-> "none", arr |-> <<>>, n |-> 0, max |-> 0, exponent |-> 0]

UtilIdle ==
    /\ utilIn = NoArguments
    /\ utilCall = "none"
    /\ utilOut = <<>>

AxisSizes == {1, MaxAngles}
SetValue == 7
DefaultNumWavelengths == 1
EndIndices(n) == {0, n - 1}

SSInit ==
    /\ SampleSetIdle
    /\ WriterIdle
    /\ SetupIdle
    /\ UtilIdle

Construct ==
    /\ ssState = "none"
    /\ \E n0 \in AxisSizes \cup {0}, n1 \in AxisSizes \cup {0},
          n2 \in AxisSizes \cup {0}, n3 \in AxisSizes \cup {0},
          cm \in ColorModels, nw \in 0..MaxWavelengths :
          /\ cm # "SPECTRAL_MODEL" => nw = DefaultNumWavelengths
          /\ ssArgs' = <<n0, n1, n2, n3, cm, nw>>
          /\ IF CtorAssertsHold(n0, n1, n2, n3, cm, nw)
             THEN /\ ss' = SampleSetCtor(n0, n1, n2, n3, cm, nw)
                  /\ ssState' = "live"
             ELSE /\ ss' = ss
                  /\ ssState' = "aborted"
    /\ ssLast' = [op |-> "construct", before |-> <<>>]
    /\ UNCHANGED <<ssStale, ssOps>>
    /\ UNCHANGED nonSSVars

ResizeAngles ==
    /\ ssState = "live"
    /\ ssOps < MaxOps
    /\ \E n0 \in AxisSizes, n1 \in AxisSizes, n2 \in AxisSizes, n3 \in AxisSizes :
          ss' = resizeAngles(ss, n0, n1, n2, n3)
    /\ ssLast' = [op |-> "resizeAngles", before |-> ss.spectra]
    /\ ssStale' = TRUE
    /\ ssOps' = ssOps + 1
    /\ UNCHANGED <<ssState, ssArgs>>
    /\ UNCHANGED nonSSVars

ResizeWavelengths ==
    /\ ssState = "live"
    /\ ssOps < MaxOps
    /\ \E n \in 1..MaxWavelengths :
          ss' = resizeWavelengths(ss, n)
    /\ ssLast' = [op |-> "resizeWavelengths", before |-> ss.spectra]
    /\ ssStale' = FALSE
    /\ ssOps' = ssOps + 1
    /\ UNCHANGED <<ssState, ssArgs>>
    /\ UNCHANGED nonSSVars

\* setSpectrum with indices inside the axes (the first or the last of each
\* axis) and a vector of the grid's channel count (its preconditions).
SetSpectrum ==
    /\ ssState = "live"
    /\ ssOps < MaxOps
    /\ \E i0 \in EndIndices(getNumAngles0(ss)), i1 \in EndIndices(getNumAngles1(ss)),
          i2 \in EndIndices(getNumAngles2(ss)), i3 \in EndIndices(getNumAngles3(ss)) :
          ss' = setSpectrum(ss, i0, i1, i2, i3,
                            [k \in 1..getNumWavelengths(ss) |-> SetValue])
    /\ ssLast' = [op |-> "setSpectrum", before |-> ss.spectra]
    /\ ssOps' = ssOps + 1
    /\ UNCHANGED <<ssState, ssArgs, ssStale>>
    /\ UNCHANGED nonSSVars

\* What a read of an array can give: the elements that were never written
\* hold any value.  Two fillings are enough to reach every value of the
\* flags: 0, 90, 180, ... degrees and 90, 270, 450, ... degrees.
Readings(arr) ==
    {[i \in 1..Len(arr) |->
        IF arr[i] # Uninit THEN arr[i]
        ELSE IF fromZero THEN (i - 1) * Deg(90)
        ELSE Deg(90) + (i - 1) * Deg(180)] : fromZero \in BOOLEAN}

HasUninit(s) ==
    \/ \E arr \in {s.angles0, s.angles1, s.angles2, s.angles3, s.wavelengths} :
          \E i \in 1..Len(arr) : arr[i] = Uninit
    \/ \E k \in 1..NumSamples(s) : \E i \in 1..Len(s.spectra[k]) :
          s.spectra[k][i] = Uninit

UpdateAngleAttributes ==
    /\ ssState = "live"
    /\ ssOps < MaxOps
    /\ \E a0 \in Readings(ss.angles0), a1 \in Readings(ss.angles1),
          a2 \in Readings(ss.angles2), a3 \in Readings(ss.angles3) :
          \E u \in {updateAngleAttributes([ss EXCEPT !.angles0 = a0, !.angles1 = a1,
                                                     !.angles2 = a2, !.angles3 = a3])} :
              ss' = [ss EXCEPT !.equalIntervalAngles0 = u.equalIntervalAngles0,
                               !.equalIntervalAngles1 = u.equalIntervalAngles1,
                               !.equalIntervalAngles2 = u.equalIntervalAngles2,
                               !.equalIntervalAngles3 = u.equalIntervalAngles3,
                               !.oneSide = u.oneSide]
    /\ ssLast' = [op |-> "updateAngleAttributes", before |-> ss.spectra]
    /\ ssOps' = ssOps + 1
    /\ UNCHANGED <<ssState, ssArgs, ssStale>>
    /\ UNCHANGED nonSSVars

\* validate is const; a grid with elements that were never written can be
\* found invalid.
Validate ==
    /\ ssState = "live"
    /\ ssOps < MaxOps
    /\ \E r \in {validate(ss)} \cup (IF HasUninit(ss) THEN {FALSE} ELSE {}) :
          ssLast' = [op |-> "validate", before |-> ss.spectra, ret |-> r]
    /\ ssOps' = ssOps + 1
    /\ UNCHANGED <<ss, ssState, ssArgs, ssStale>>
    /\ UNCHANGED nonSSVars

SSNext ==
    \/ Construct
    \/ ResizeAngles
    \/ ResizeWavelengths
    \/ SetSpectrum
    \/ UpdateAngleAttributes
    \/ Validate

SpecSampleSet == SSInit /\ [][SSNext]_vars

(***************************************************************************)
(* Float arithmetic of the grid passes: a non-finite operand stays         *)
(* non-finite.                                                             *)
(***************************************************************************)
FAdd(a, b) ==
    IF a = NaN \/ b = NaN THEN NaN
    ELSE IF {a, b} = {PosInf, NegInf} THEN NaN
    ELSE IF PosInf \in {a, b} THEN PosInf
    ELSE IF NegInf \in {a, b} THEN NegInf
    ELSE a + b

FDiv(a, n) == IF IsFinite(a) THEN a \div n ELSE a

RECURSIVE FSum(_)
FSum(seq) == IF seq = <<>> THEN 0 ELSE FAdd(Head(seq), FSum(Tail(seq)))

RECURSIVE SeqConcat(_)
SeqConcat(seqs) == IF seqs = <<>> THEN <<>> ELSE Head(seqs) \o SeqConcat(Tail(seqs))

RECURSIVE Pow(_, _)
Pow(b, e) == IF e = 0 THEN 1 ELSE b * Pow(b, e - 1)

(***************************************************************************)
(* Axes.  Eigen's LinSpaced(1, low, high) is <<high>>.                     *)
(***************************************************************************)
MAX_ANGLE0 == Deg(90)
MAX_ANGLE1 == Deg(360)
MAX_ANGLE2 == Deg(90)
MAX_ANGLE3 == Deg(360)

LinSpaced(n, low, high) ==
    [i \in 1..n |-> IF n = 1 THEN high
                    ELSE low + ((i - 1) * (high - low)) \div (n - 1)]

\* array_util::createExponential: interior points are (x/max)^exponent * max.
createLinear(numElements, maxValue, exponent) ==
    LinSpaced(numElements, 0, maxValue)
createExponential(numElements, maxValue, exponent) ==
    LET arr == LinSpaced(numElements, 0, maxValue)
    IN  [i \in 1..numElements |->
            IF i > 1 /\ i < numElements
            THEN Pow(arr[i], exponent) \div Pow(maxValue, exponent - 1)
            ELSE arr[i]]

(***************************************************************************)
(* Brdf objects.  kind is the dynamic type: "Specular" for                 *)
(* SpecularCoordinatesBrdf, "Spherical" for SphericalCoordinatesBrdf,      *)
(* "Generic" for any other Brdf.                                           *)
(***************************************************************************)
FreedObject ==
    [kind |-> "Freed", sourceType |-> "UNKNOWN_SOURCE", ss |-> EmptySampleSet,
     specularOffsets |-> <<>>]

getNumInTheta(b)   == getNumAngles0(b.ss)
getNumInPhi(b)     == getNumAngles1(b.ss)
getNumSpecTheta(b) == getNumAngles2(b.ss)
getNumSpecPhi(b)   == getNumAngles3(b.ss)
getNumSpecularOffsets(b) == Len(b.specularOffsets)

\* The sample array of an n0 x n1 x n2 x n3 grid whose cell (i0,i1,i2,i3) is
\* F(i0,i1,i2,i3).
MakeSpectra(n0, n1, n2, n3, F(_, _, _, _)) ==
    [k \in 1..(n0 * n1 * n2 * n3) |->
        F((k - 1) % n0, ((k - 1) \div n0) % n1,
          ((k - 1) \div (n0 * n1)) % n2, (k - 1) \div (n0 * n1 * n2))]

\* Index (from 0) of the sample of arr a resampled grid reads at angle a: the
\* last sample not above a, the first one if there is none.
LowerIndex(arr, a) ==
    LET below == {j \in 1..Len(arr) : arr[j] <= a}
    IN  IF below = {} THEN 0
        ELSE (CHOOSE j \in below : \A k \in below : k <= j) - 1

\* SpecularCoordinatesBrdf(brdf, inThetaAngles, inPhiAngles, specThetaAngles,
\* specPhiAngles): a new grid on the given axes, filled from brdf.
ResampledBrdf(b, a0, a1, a2, a3) ==
    LET src == b.ss
        grid == [src EXCEPT
                    !.angles0 = a0, !.angles1 = a1, !.angles2 = a2, !.angles3 = a3,
                    !.spectra = MakeSpectra(Len(a0), Len(a1), Len(a2), Len(a3),
                        LAMBDA i0, i1, i2, i3 :
                            getSpectrum(src,
                                        LowerIndex(src.angles0, a0[i0 + 1]),
                                        LowerIndex(src.angles1, a1[i1 + 1]),
                                        LowerIndex(src.angles2, a2[i2 + 1]),
                                        LowerIndex(src.angles3, a3[i3 + 1])))]
    IN  [kind |-> "Specular", sourceType |-> b.sourceType,
         ss |-> updateAngleAttributes(grid), specularOffsets |-> <<>>]

\* SpecularCoordinatesBrdf(spheBrdf, numSpecTheta, numSpecPhi)
SphericalToSpecular(b, numSpecTheta, numSpecPhi) ==
    ResampledBrdf(b, b.ss.angles0, b.ss.angles1,
                  LinSpaced(numSpecTheta, 0, MAX_ANGLE2),
                  LinSpaced(numSpecPhi, 0, MAX_ANGLE3))

(***************************************************************************)
(* The heap.  new takes the lowest free slot; delete frees a slot.         *)
(***************************************************************************)
FreeSlots(h) == {i \in 1..Len(h) : h[i].kind = "Freed"}

NewId(h) ==
    IF FreeSlots(h) = {} THEN Len(h) + 1
    ELSE CHOOSE i \in FreeSlots(h) : \A j \in FreeSlots(h) : i <= j

New(h, obj) ==
    [heap |-> IF NewId(h) > Len(h) THEN Append(h, obj)
              ELSE [h EXCEPT ![NewId(h)] = obj],
     id |-> NewId(h)]

Delete(h, id) == [h EXCEPT ![id] = FreedObject]

(***************************************************************************)
(* DdrWriter::convert                                                      *)
(***************************************************************************)
MinNumSpecTheta      == 181
MinNumSpecPhi        == 73
GenericNumInTheta    == 19
GenericNumInPhi      == 37
GenericNumSpecTheta  == 91
GenericNumSpecPhi    == 73
GenericExponent      == 2

ConvertedBrdfWithoutMinimum(b) ==
    IF b.kind = "Specular" THEN b
    ELSE SphericalToSpecular(b, getNumAngles2(b.ss), getNumAngles3(b.ss))
ConvertedBrdf(b) ==
    IF b.kind = "Specular" THEN b
    ELSE IF b.kind = "Spherical"
    THEN SphericalToSpecular(b, Max(getNumAngles2(b.ss), MinNumSpecTheta),
                                Max(getNumAngles3(b.ss), MinNumSpecPhi))
    ELSE LET numInPhi == IF getNumAngles1(b.ss) = 1 THEN 1 ELSE GenericNumInPhi
         IN  ResampledBrdf(b,
                 LinSpaced(GenericNumInTheta, 0, MAX_ANGLE0),
                 LinSpaced(numInPhi, 0, MAX_ANGLE1),
                 createExponential(GenericNumSpecTheta, MAX_ANGLE2, GenericExponent),
                 LinSpaced(GenericNumSpecPhi, 0, MAX_ANGLE3))

\* convert returns a new object: <heap, id of the object, trace>.
convert(h, id, tr) ==
    LET n == New(h, ConvertedBrdf(h[id]))
    IN  [heap |-> n.heap, id |-> n.id, trace |-> Append(tr, "convert")]

(***************************************************************************)
(* The passes of DdrWriter::arrange on a sample grid.                      *)
(***************************************************************************)
EnergyBound == 4

NumExpandedInTheta == 10

Range(seq) == {seq[i] : i \in 1..Len(seq)}

RECURSIVE SortedSeq(_)
SortedSeq(S) ==
    IF S = {} THEN <<>>
    ELSE LET m == CHOOSE x \in S : \A y \in S : x <= y
         IN  <<m>> \o SortedSeq(S \ {m})

FirstIndexOf(seq, x) ==
    (CHOOSE i \in 1..Len(seq) : seq[i] = x /\ \A j \in 1..(i - 1) : seq[j] # x) - 1

\* Overlap equalization: at specular polar angle 0 every specular azimuth is
\* the same direction, and its samples are replaced by their average.
equalizeOverlappingSamples(s) ==
    LET avg(i0, i1, i2) ==
            [ch \in 1..Len(getSpectrum(s, i0, i1, i2, 0)) |->
                FDiv(FSum([j \in 1..getNumAngles3(s) |->
                              getSpectrum(s, i0, i1, i2, j - 1)[ch]]),
                     getNumAngles3(s))]
    IN  [s EXCEPT !.spectra =
            MakeSpectra(getNumAngles0(s), getNumAngles1(s),
                        getNumAngles2(s), getNumAngles3(s),
                LAMBDA i0, i1, i2, i3 :
                    IF s.angles2[i2 + 1] = 0 THEN avg(i0, i1, i2)
                    ELSE getSpectrum(s, i0, i1, i2, i3))]

\* Azimuthal symmetrization: a one-sided grid gets, for every specular
\* azimuth a strictly inside a half, the mirrored azimuth 2*pi - a.
expandAngles(s) ==
    IF ~s.oneSide THEN s
    ELSE LET present  == Range(s.angles3)
             mirrored == {Deg(360) - a :
                             a \in {x \in present : x > 0 /\ x < Deg(360)}}
             newAxis  == SortedSeq(present \cup mirrored)
             source(x) == IF x \in present THEN FirstIndexOf(s.angles3, x)
                          ELSE FirstIndexOf(s.angles3, Deg(360) - x)
         IN  updateAngleAttributes(
               [s EXCEPT !.angles3 = newAxis,
                         !.spectra =
                    MakeSpectra(getNumAngles0(s), getNumAngles1(s),
                                getNumAngles2(s), Len(newAxis),
                        LAMBDA i0, i1, i2, i3 :
                            getSpectrum(s, i0, i1, i2, source(newAxis[i3 + 1])))])

\* Periodic-boundary duplication: the samples at specular azimuth 0 are
\* copied to the sample at 360 degrees, which is added if the axis ends
\* before it.
copySpectraFromPhiOf0To360(s) ==
    IF s.angles3[1] # 0 THEN s
    ELSE LET a3 == IF s.angles3[Len(s.angles3)] = MAX_ANGLE3 THEN s.angles3
                   ELSE Append(s.angles3, MAX_ANGLE3)
         IN  [s EXCEPT !.angles3 = a3,
                       !.spectra =
                  MakeSpectra(getNumAngles0(s), getNumAngles1(s),
                              getNumAngles2(s), Len(a3),
                      LAMBDA i0, i1, i2, i3 :
                          IF i3 = Len(a3) - 1 THEN getSpectrum(s, i0, i1, i2, 0)
                          ELSE getSpectrum(s, i0, i1, i2, i3))]

\* Energy-plausibility correction: every value is brought into
\* [0, EnergyBound].
ClampEnergy(v) ==
    IF v = NaN THEN NaN
    ELSE IF v < 0 THEN 0
    ELSE IF v > EnergyBound THEN EnergyBound
    ELSE v

fixEnergyConservation(s) ==
    [s EXCEPT !.spectra =
        [k \in 1..Len(s.spectra) |->
            [ch \in 1..Len(s.spectra[k]) |-> ClampEnergy(s.spectra[k][ch])]]]

\* Grazing-incidence fill: every sample at incoming polar angle 90 degrees
\* becomes value.
fillSpectraAtInThetaOf90(s, value) ==
    [s EXCEPT !.spectra =
        MakeSpectra(getNumAngles0(s), getNumAngles1(s),
                    getNumAngles2(s), getNumAngles3(s),
            LAMBDA i0, i1, i2, i3 :
                IF s.angles0[i0 + 1] = MAX_ANGLE0
                THEN [ch \in 1..Len(getSpectrum(s, i0, i1, i2, i3)) |-> value]
                ELSE getSpectrum(s, i0, i1, i2, i3))]

\* A grid with its sample array written out cell by cell.  (A function
\* expression is evaluated anew at every application; the explicit
\* sequences are the same values, computed once.)
Explicit(seq) == SubSeq(seq, 1, Len(seq))

Stored(s) ==
    [s EXCEPT !.spectra = Explicit([k \in 1..Len(s.spectra) |-> Explicit(s.spectra[k])])]

(***************************************************************************)
(* DdrWriter::arrange.  A context is <heap, id of the working object,      *)
(* trace>; every pass works on the object the context names and adds its *)
(* name to the trace.                                                    *)
(***************************************************************************)
Pass(ctx, name, G(_)) ==
    [heap  |-> [ctx.heap EXCEPT ![ctx.id].ss = Stored(G(ctx.heap[ctx.id].ss))],
     id    |-> ctx.id,
     trace |-> Append(ctx.trace, name)]

\* arrangedBrdf = new SpecularCoordinatesBrdf(brdf)
ArrangeAliasedCopy(h, id, tr) == [heap |-> h, id |-> id, trace |-> tr]
ArrangeWorkingCopy(h, id, tr) ==
    LET n == New(h, h[id])
    IN  [heap |-> n.heap, id |-> n.id, trace |-> tr]

\* The one-sample expansion: filledBrdf replaces arrangedBrdf.
ExpandInTheta(ctx) ==
    LET arranged == ctx.heap[ctx.id]
        filled == ResampledBrdf(arranged,
                                LinSpaced(NumExpandedInTheta, 0, MAX_ANGLE0),
                                arranged.ss.angles1, arranged.ss.angles2,
                                arranged.ss.angles3)
        n == New(ctx.heap, [filled EXCEPT !.ss = Stored(filled.ss)])
    IN  [heap  |-> Delete(n.heap, ctx.id),
         id    |-> n.id,
         trace |-> Append(ctx.trace, "expandInTheta")]

FillZero(s) == fillSpectraAtInThetaOf90(s, 0)

arrangeEnergyFirst(h, id, dataType, tr) ==
    LET c0 == ArrangeWorkingCopy(h, id, tr)
        c1 == IF getNumInTheta(c0.heap[c0.id]) = 1 THEN ExpandInTheta(c0) ELSE c0
        c2 == Pass(c1, "fixEnergyConservation", fixEnergyConservation)
        c3 == Pass(c2, "equalizeOverlappingSamples", equalizeOverlappingSamples)
        c4 == Pass(c3, "expandAngles", expandAngles)
        c5 == Pass(c4, "copySpectraFromPhiOf0To360", copySpectraFromPhiOf0To360)
    IN  IF dataType = "BTDF_DATA"
        THEN Pass(c5, "fillSpectraAtInThetaOf90", FillZero)
        ELSE c5
arrange(h, id, dataType, tr) ==
    LET c0 == ArrangeWorkingCopy(h, id, tr)
        c1 == IF getNumInTheta(c0.heap[c0.id]) = 1 THEN ExpandInTheta(c0) ELSE c0
        c2 == Pass(c1, "equalizeOverlappingSamples", equalizeOverlappingSamples)
        c3 == Pass(c2, "expandAngles", expandAngles)
        c4 == Pass(c3, "copySpectraFromPhiOf0To360", copySpectraFromPhiOf0To360)
        c5 == Pass(c4, "fixEnergyConservation", fixEnergyConservation)
    IN  IF dataType = "BTDF_DATA"
        THEN Pass(c5, "fillSpectraAtInThetaOf90", FillZero)
        ELSE c5

(***************************************************************************)
(* DdrWriter::output.  The stream is a sequence of lines; a line is a      *)
(* keyword (or text) followed by numbers.  Emitted sample values are       *)
(* fixed-point: a stored value v is FixedOne * v, pi is PI_F / FixedOne,   *)
(* and an emitted number is in units of 1 / (FixedOne * FixedOne).         *)
(***************************************************************************)
Line(kw, nums) == [kw |-> kw, nums |-> nums]

toDegree(a) == a

\* xyzToSrgb: the CIE XYZ to linear sRGB matrix, in units of 1 / FixedOne.
XYZ_sRGB ==
    << << 3241, -1537, -499 >>,
       << -969,  1876,   42 >>,
       <<   56,  -204, 1057 >> >>

xyzToSrgb(xyz) ==
    [r \in 1..3 |-> XYZ_sRGB[r][1] * xyz[1] + XYZ_sRGB[r][2] * xyz[2]
                    + XYZ_sRGB[r][3] * xyz[3]]

cwiseMax(sp, low) == [k \in 1..Len(sp) |-> Max(sp[k], low)]

\* The number written for channel wlIndex of a stored spectrum.
EmittedValue(s, stored, wlIndex) ==
    LET sp == cwiseMax(stored, 0)
    IN  IF s.colorModel = "XYZ_MODEL"
        THEN xyzToSrgb(sp)[wlIndex + 1] * PI_F
        ELSE sp[wlIndex + 1] * FixedOne * PI_F

\* The color model announced in the header.
HeaderColorModel(s) ==
    IF getNumWavelengths(s) = 1 THEN "MONOCHROMATIC_MODEL"
    ELSE IF s.colorModel = "RGB_MODEL" \/ s.colorModel = "XYZ_MODEL" THEN "RGB_MODEL"
    ELSE "SPECTRAL_MODEL"

HeaderLines(b, comments) ==
    LET s == b.ss
    IN  <<Line(";; This file is generated by libbsdf-", <<>>)>>
        \o (IF comments # "" THEN <<Line(";; " \o comments, <<>>)>> ELSE <<>>)
        \o <<Line("", <<>>)>>
        \o <<Line(CASE b.sourceType = "MEASURED_SOURCE"  -> "Source Measured"
                    [] b.sourceType = "GENERATED_SOURCE" -> "Source Generated"
                    [] b.sourceType = "EDITED_SOURCE"    -> "Source Edited"
                    [] OTHER                             -> "Source Measured", <<>>)>>
        \o <<Line(IF isIsotropic(s) THEN "TypeSym ASymmetrical"
                  ELSE "TypeSym ASymmetrical 4D", <<>>)>>
        \o <<CASE HeaderColorModel(s) = "MONOCHROMATIC_MODEL" ->
                    Line("TypeColorModel BW", <<>>)
               [] HeaderColorModel(s) = "RGB_MODEL" ->
                    Line("TypeColorModel RGB", <<>>)
               [] OTHER ->
                    Line("TypeColorModel spectral", <<getNumWavelengths(s)>>)>>
        \o <<Line("TypeData Luminance Absolute", <<>>)>>
        \o (IF ~isIsotropic(s)
            THEN <<Line("psi", <<getNumInPhi(b)>>),
                   Line("", [i \in 1..getNumInPhi(b) |-> toDegree(s.angles1[i])])>>
            ELSE <<>>)
        \o <<Line("sigma", <<getNumInTheta(b)>>),
             Line("", [i \in 1..getNumInTheta(b) |-> toDegree(s.angles0[i])])>>
        \o (IF getNumSpecularOffsets(b) = getNumInTheta(b)
            THEN <<Line("sigmat", <<>>),
                   Line("", [i \in 1..getNumSpecularOffsets(b) |->
                               toDegree(s.angles0[i] + b.specularOffsets[i])])>>
            ELSE <<>>)
        \o <<Line("phi", <<getNumSpecPhi(b)>>),
             Line("", [i \in 1..getNumSpecPhi(b) |-> toDegree(s.angles3[i])])>>
        \o <<Line("theta", <<getNumSpecTheta(b)>>),
             Line("", [i \in 1..getNumSpecTheta(b) |-> toDegree(s.angles2[i])])>>

BlockLabelAbbreviated(s, wlIndex) ==
    IF HeaderColorModel(s) = "MONOCHROMATIC_MODEL" THEN Line("bw", <<>>)
    ELSE IF HeaderColorModel(s) = "RGB_MODEL"
    THEN (IF wlIndex = 0 THEN Line("red", <<>>)
          ELSE IF wlIndex = 1 THEN Line("gre", <<>>)
          ELSE Line("blu", <<>>))
    ELSE Line("wl", <<s.wavelengths[wlIndex + 1]>>)
BlockLabel(s, wlIndex) ==
    IF HeaderColorModel(s) = "MONOCHROMATIC_MODEL" THEN Line("bw", <<>>)
    ELSE IF HeaderColorModel(s) = "RGB_MODEL"
    THEN (IF wlIndex = 0 THEN Line("red", <<>>)
          ELSE IF wlIndex = 1 THEN Line("green", <<>>)
          ELSE Line("blue", <<>>))
    ELSE Line("wl", <<s.wavelengths[wlIndex + 1]>>)

\* One row per specular azimuth, holding a value per specular polar angle.
RowLine(b, wlIndex, inThIndex, inPhIndex, spPhIndex) ==
    Line("", [t \in 1..getNumSpecTheta(b) |->
                 EmittedValue(b.ss,
                              getSpectrum(b.ss, inThIndex, inPhIndex, t - 1, spPhIndex),
                              wlIndex)])

BlockLines(b, wlIndex) ==
    <<BlockLabel(b.ss, wlIndex),
      Line(" kbdf", <<>>),
      Line(" ", [i \in 1..(getNumInTheta(b) * getNumInPhi(b)) |-> 1]),
      Line(" def", <<>>)>>
    \o SeqConcat([p \in 1..getNumInPhi(b) |->
          <<Line(";; Psi =", <<toDegree(b.ss.angles1[p])>>)>>
          \o SeqConcat([t \in 1..getNumInTheta(b) |->
                <<Line(";; Sigma =", <<toDegree(b.ss.angles0[t])>>)>>
                \o [f \in 1..getNumSpecPhi(b) |->
                       RowLine(b, wlIndex, t - 1, p - 1, f - 1)]])])
    \o <<Line(" enddef", <<>>)>>

OutputLines(b, comments) ==
    HeaderLines(b, comments)
    \o SeqConcat([w \in 1..getNumWavelengths(b.ss) |-> BlockLines(b, w - 1)])

\* output(brdf, stream, comments): <ok, lines written, trace>
output(b, comments, tr) ==
    IF ~validate(b.ss)
    THEN [ok |-> FALSE, lines |-> <<>>, trace |-> Append(tr, "validate")]
    ELSE [ok |-> TRUE, lines |-> OutputLines(b, comments),
          trace |-> Append(Append(tr, "validate"), "output")]

(***************************************************************************)
(* The older overload output(brdf, stream): no validation, no comment      *)
(* line, no sigmat section, no clamp, and its own block labels.            *)
(***************************************************************************)
FScale(v, k) == IF IsFinite(v) THEN v * k ELSE v

EmittedValueOlder(s, stored, wlIndex) ==
    IF s.colorModel = "XYZ_MODEL"
    THEN (IF AllFinite(stored) THEN xyzToSrgb(stored)[wlIndex + 1] * PI_F ELSE NaN)
    ELSE FScale(stored[wlIndex + 1], FixedOne * PI_F)

HeaderLinesOlder(b) ==
    LET s == b.ss
    IN  <<Line(";; This file is generated by libbsdf-", <<>>),
          Line("", <<>>),
          Line("Source Measured", <<>>),
          Line(IF isIsotropic(s) THEN "TypeSym ASymmetrical"
               ELSE "TypeSym ASymmetrical 4D", <<>>)>>
        \o <<CASE HeaderColorModel(s) = "MONOCHROMATIC_MODEL" ->
                    Line("TypeColorModel BW", <<>>)
               [] HeaderColorModel(s) = "RGB_MODEL" ->
                    Line("TypeColorModel RGB", <<>>)
               [] OTHER ->
                    Line("TypeColorModel spectral", <<getNumWavelengths(s)>>)>>
        \o <<Line("TypeData Luminance Absolute", <<>>)>>
        \o (IF ~isIsotropic(s)
            THEN <<Line("psi", <<getNumInPhi(b)>>),
                   Line("", [i \in 1..getNumInPhi(b) |-> toDegree(s.angles1[i])])>>
            ELSE <<>>)
        \o <<Line("sigma", <<getNumInTheta(b)>>),
             Line("", [i \in 1..getNumInTheta(b) |-> toDegree(s.angles0[i])])>>
        \o <<Line("phi", <<getNumSpecPhi(b)>>),
             Line("", [i \in 1..getNumSpecPhi(b) |-> toDegree(s.angles3[i])])>>
        \o <<Line("theta", <<getNumSpecTheta(b)>>),
             Line("", [i \in 1..getNumSpecTheta(b) |-> toDegree(s.angles2[i])])>>

BlockLabelOlder(s, wlIndex) ==
    IF HeaderColorModel(s) = "MONOCHROMATIC_MODEL" THEN Line("bw", <<>>)
    ELSE IF HeaderColorModel(s) = "RGB_MODEL"
    THEN (IF wlIndex = 0 THEN Line("red", <<>>)
          ELSE IF wlIndex = 1 THEN Line("gre", <<>>)
          ELSE Line("blu", <<>>))
    ELSE Line("wl", <<s.wavelengths[wlIndex + 1]>>)

BlockLinesOlder(b, wlIndex) ==
    <<BlockLabelOlder(b.ss, wlIndex),
      Line(" kbdf", <<>>),
      Line(" ", [i \in 1..getNumInTheta(b) |-> 1]),
      Line(" def", <<>>)>>
    \o SeqConcat([p \in 1..getNumInPhi(b) |->
          <<Line(";; Psi =", <<toDegree(b.ss.angles1[p])>>)>>
          \o SeqConcat([t \in 1..getNumInTheta(b) |->
                <<Line(";; Sigma =", <<toDegree(b.ss.angles0[t])>>)>>
                \o [f \in 1..getNumSpecPhi(b) |->
                       Line("", [th \in 1..getNumSpecTheta(b) |->
                           EmittedValueOlder(b.ss,
                               getSpectrum(b.ss, t - 1, p - 1, th - 1, f - 1),
                               wlIndex)])]])])
    \o <<Line(" enddef", <<>>)>>

\* output(brdf, stream): <ok, lines written, trace>
outputOlder(b, tr) ==
    [ok |-> TRUE,
     lines |-> HeaderLinesOlder(b)
               \o SeqConcat([w \in 1..getNumWavelengths(b.ss) |->
                                BlockLinesOlder(b, w - 1)]),
     trace |-> Append(tr, "output")]

(***************************************************************************)
(* DdrWriter::write.  A file is <exists, content>; opening a std::ofstream *)
(* creates the file or truncates it.                                       *)
(***************************************************************************)
AbsentFile == [exists |-> FALSE, content |-> <<>>]
OldFile    == [exists |-> TRUE,  content |-> <<Line("previous content", <<>>)>>]
OpenedFile == [exists |-> TRUE,  content |-> <<>>]

\* write(fileName, SpecularCoordinatesBrdf, comments): <ok, file, trace>
writeSpecular(dest, openable, b, comments, tr) ==
    IF ~openable
    THEN [ok |-> FALSE, file |-> dest, trace |-> Append(tr, "open failed")]
    ELSE LET out == output(b, comments, Append(tr, "open"))
         IN  [ok |-> out.ok,
              file |-> [OpenedFile EXCEPT !.content = out.lines],
              trace |-> out.trace]

\* write(fileName, Brdf, dataType, comments): <ok, file, heap, trace>; the
\* two unique_ptr release the converted and the arranged object on return.
writeBrdf(h, id, dest, openable, dataType, comments, tr) ==
    IF ~validate(h[id].ss)
    THEN [ok |-> FALSE, file |-> dest, heap |-> h,
          trace |-> Append(tr, "validate")]
    ELSE LET converted    == convert(h, id, Append(tr, "validate"))
             extrapolated == arrange(converted.heap, converted.id, dataType,
                                     converted.trace)
             w == writeSpecular(dest, openable,
                                extrapolated.heap[extrapolated.id], comments,
                                extrapolated.trace)
         IN  [ok |-> w.ok, file |-> w.file,
              heap |-> Delete(Delete(extrapolated.heap, extrapolated.id),
                              converted.id),
              trace |-> w.trace]

(***************************************************************************)
(* Specification of the writer.  The caller owns one Brdf (heap[InputId])  *)
(* and calls the entry points on it, in any order.                         *)
(***************************************************************************)
InputId == 1

DataTypes   == {"BRDF_DATA", "BTDF_DATA"}
SourceTypes == {"MEASURED_SOURCE", "GENERATED_SOURCE", "EDITED_SOURCE",
                "UNKNOWN_SOURCE"}
CommentTexts == {"", "measured sample"}

\* Axes of the canonical grids handed to the writer.
SpecularShapes ==
    { [a0 |-> <<0>>, a1 |-> <<0>>,
       a2 |-> <<0, Deg(45), Deg(90)>>, a3 |-> <<0, Deg(180)>>, off |-> <<>>],
      [a0 |-> <<0, Deg(90)>>, a1 |-> <<0, Deg(180)>>,
       a2 |-> <<0, Deg(90)>>, a3 |-> <<0, Deg(90), Deg(180)>>, off |-> <<0, 0>>],
      [a0 |-> <<0, Deg(45), Deg(90)>>, a1 |-> <<0>>,
       a2 |-> <<Deg(10), Deg(90)>>,
       a3 |-> <<0, Deg(90), Deg(270), Deg(360)>>, off |-> <<>>] }

\* Axes of the grids of other representations.
OtherShapes ==
    { [a0 |-> <<0>>, a1 |-> <<0>>, a2 |-> <<0, Deg(90)>>,
       a3 |-> <<0, Deg(180)>>, off |-> <<>>],
      [a0 |-> <<0, Deg(90)>>, a1 |-> <<0, Deg(180)>>, a2 |-> <<0, Deg(90)>>,
       a3 |-> <<0>>, off |-> <<>>],
      [a0 |-> <<0>>, a1 |-> <<0>>,
       a2 |-> LinSpaced(MinNumSpecTheta + 1, 0, Deg(90)), a3 |-> <<0>>,
       off |-> <<>>],
      [a0 |-> <<0>>, a1 |-> <<0>>, a2 |-> <<0>>,
       a3 |-> LinSpaced(MinNumSpecPhi + 1, 0, Deg(360)), off |-> <<>>] }

Colors ==
    { <<"RGB_MODEL", 3>>, <<"XYZ_MODEL", 3>>, <<"MONOCHROMATIC_MODEL", 1>>,
      <<"SPECTRAL_MODEL", 1>>, <<"SPECTRAL_MODEL", MaxWavelengths>> }

Patterns == {"ramp", "signed", "large"}
Poisons  == {"none", "cellNaN", "cellPosInf", "cellNegInf", "angleNaN",
             "anglePosInf", "wavelengthNaN", "several"}

\* The value of channel ch of the k-th cell.
PatternValue(pattern, k, ch) ==
    CASE pattern = "ramp"   -> (k + ch) % 4
      [] pattern = "signed" -> ((k + 2 * ch) % 5) - 2
      [] pattern = "large"  -> 3 * k + ch

Poisoned(s, poison) ==
    CASE poison = "none"          -> s
      [] poison = "cellNaN"       -> [s EXCEPT !.spectra[1][1] = NaN]
      [] poison = "cellPosInf"    ->
            [s EXCEPT !.spectra[Len(s.spectra)][Len(s.wavelengths)] = PosInf]
      [] poison = "cellNegInf"    -> [s EXCEPT !.spectra[Len(s.spectra)][1] = NegInf]
      [] poison = "angleNaN"      -> [s EXCEPT !.angles2[Len(s.angles2)] = NaN]
      [] poison = "anglePosInf"   -> [s EXCEPT !.angles3[Len(s.angles3)] = PosInf]
      [] poison = "wavelengthNaN" -> [s EXCEPT !.wavelengths[1] = NaN]
      [] poison = "several"       ->
            [s EXCEPT !.spectra[1][1] = NaN,
                      !.spectra[Len(s.spectra)][Len(s.wavelengths)] = PosInf,
                      !.angles0[1] = NegInf,
                      !.angles3[Len(s.angles3)] = NaN,
                      !.wavelengths[1] = PosInf]

MakeBrdf(kind, shape, color, pattern, poison, sourceType) ==
    LET n  == color[2]
        s0 == [EmptySampleSet EXCEPT
                  !.angles0 = shape.a0, !.angles1 = shape.a1,
                  !.angles2 = shape.a2, !.angles3 = shape.a3,
                  !.colorModel = color[1],
                  !.wavelengths = IF color[1] = "SPECTRAL_MODEL"
                                  THEN [i \in 1..n |-> 400 + 100 * i]
                                  ELSE Zero(n),
                  !.spectra = [k \in 1..(Len(shape.a0) * Len(shape.a1)
                                         * Len(shape.a2) * Len(shape.a3)) |->
                                  [ch \in 1..n |-> PatternValue(pattern, k, ch)]]]
    IN  [kind |-> kind, sourceType |-> sourceType,
         ss |-> updateAngleAttributes(Poisoned(s0, poison)),
         specularOffsets |-> shape.off]

Inputs ==
    { MakeBrdf("Specular", shape, color, pattern, "none", "MEASURED_SOURCE") :
        shape \in SpecularShapes, color \in Colors, pattern \in Patterns }
    \cup
    { MakeBrdf("Specular", shape, color, "ramp", poison, "MEASURED_SOURCE") :
        shape \in SpecularShapes, color \in Colors, poison \in Poisons }
    \cup
    { MakeBrdf("Specular", shape, <<"RGB_MODEL", 3>>, "ramp", "none", sourceType) :
        shape \in SpecularShapes, sourceType \in SourceTypes }
    \cup
    { MakeBrdf(kind, shape, color, "ramp", poison, "MEASURED_SOURCE") :
        kind \in {"Spherical", "Generic"}, shape \in OtherShapes,
        color \in {<<"RGB_MODEL", 3>>, <<"MONOCHROMATIC_MODEL", 1>>},
        poison \in {"none", "cellNaN", "anglePosInf"} }

Summary(h, id) ==
    [id |-> id, numInTheta |-> getNumInTheta(h[id]),
     numInPhi |-> getNumInPhi(h[id]),
     numSpecTheta |-> getNumSpecTheta(h[id]),
     numSpecPhi |-> getNumSpecPhi(h[id]),
     specTheta |-> h[id].ss.angles2]

IsSpecular(id) == id \in 1..Len(heap) /\ heap[id].kind = "Specular"

WriterInit ==
    /\ \E b \in Inputs : heap = <<b>>
    /\ arrangedId = 0
    /\ file = AbsentFile
    /\ stream = <<>>
    /\ call = NoWriterCall
    /\ result = FALSE
    /\ ret = NoObject
    /\ trace = <<>>
    /\ SampleSetIdle
    /\ SetupIdle
    /\ UtilIdle

\* The destinations a write is given: a path with no file, a path with a
\* file, and a path at which no file can be opened.
Destinations ==
    { [before |-> AbsentFile, openable |-> TRUE],
      [before |-> OldFile,    openable |-> TRUE],
      [before |-> OldFile,    openable |-> FALSE] }

Fresh == call.name = "none"

\* The objects a call can be made on: the caller's Brdf before any other
\* call, and the object arrange has just returned.
Callable(id) ==
    /\ IsSpecular(id)
    /\ \/ id = InputId /\ Fresh
       \/ id = arrangedId /\ call.name = "arrange"

\* brdf.getSampleSet()->validate(); the trace is what validate logs.
CallValidate ==
    /\ Fresh
    /\ call' = [NoWriterCall EXCEPT !.name = "validate", !.id = InputId]
    /\ result' = validate(heap[InputId].ss)
    /\ trace' = validateLog(heap[InputId].ss)
    /\ ret' = NoObject
    /\ UNCHANGED <<heap, arrangedId, file, stream>>
    /\ UNCHANGED nonWriterVars

\* new followed by delete of the same object: its slot is taken and freed.
NewThenDelete(h) == Delete(New(h, FreedObject).heap, NewId(h))

\* convert(brdf); the caller reads the sizes of the returned grid and
\* deletes it.  The samples of the returned grid are not read, and a grid of
\* 19 x 37 x 91 x 73 cells is not enumerated.
CallConvert ==
    /\ Fresh
    /\ call' = [NoWriterCall EXCEPT !.name = "convert", !.id = InputId]
    /\ ret' = Summary(convert(heap, InputId, <<>>).heap, NewId(heap))
    /\ result' = (NewId(heap) # InputId)
    /\ heap' = NewThenDelete(heap)
    /\ trace' = <<"convert">>
    /\ UNCHANGED <<arrangedId, file, stream>>
    /\ UNCHANGED nonWriterVars

\* arrange(brdf, dataType) on the caller's canonical Brdf; the caller keeps
\* the returned object.
CallArrange ==
    /\ Fresh
    /\ IsSpecular(InputId)
    /\ \E dataType \in DataTypes :
          \E c \in {arrange(heap, InputId, dataType, <<>>)} :
              /\ call' = [NoWriterCall EXCEPT !.name = "arrange", !.id = InputId,
                                              !.dataType = dataType]
              /\ heap' = c.heap
              /\ arrangedId' = c.id
              /\ ret' = Summary(c.heap, c.id)
              /\ result' = (c.id # InputId)
              /\ trace' = c.trace
    /\ UNCHANGED <<file, stream>>
    /\ UNCHANGED nonWriterVars

\* output(brdf, stream, comments) on a fresh stream
CallOutput ==
    /\ \E id \in {InputId, arrangedId}, comments \in CommentTexts :
          /\ Callable(id)
          /\ \E out \in {output(heap[id], comments, <<>>)} :
                /\ call' = [NoWriterCall EXCEPT !.name = "output", !.id = id,
                                                !.comments = comments]
                /\ stream' = out.lines
                /\ result' = out.ok
                /\ trace' = out.trace
    /\ ret' = NoObject
    /\ UNCHANGED <<heap, arrangedId, file>>
    /\ UNCHANGED nonWriterVars

\* output(brdf, stream), the overload without comments
CallOutputOlder ==
    /\ \E id \in {InputId, arrangedId} :
          /\ Callable(id)
          /\ \E out \in {outputOlder(heap[id], <<>>)} :
                /\ call' = [NoWriterCall EXCEPT !.name = "outputOlder", !.id = id]
                /\ stream' = out.lines
                /\ result' = out.ok
                /\ trace' = out.trace
    /\ ret' = NoObject
    /\ UNCHANGED <<heap, arrangedId, file>>
    /\ UNCHANGED nonWriterVars

\* write(fileName, SpecularCoordinatesBrdf, comments)
CallWriteSpecular ==
    /\ \E id \in {InputId, arrangedId}, comments \in CommentTexts,
          d \in Destinations :
          /\ Callable(id)
          /\ \E w \in {writeSpecular(d.before, d.openable, heap[id], comments, <<>>)} :
                /\ call' = [name |-> "writeSpecular", id |-> id,
                            dataType |-> "BRDF_DATA", comments |-> comments,
                            openable |-> d.openable, fileBefore |-> d.before]
                /\ file' = w.file
                /\ result' = w.ok
                /\ trace' = w.trace
    /\ ret' = NoObject
    /\ stream' = <<>>
    /\ UNCHANGED <<heap, arrangedId>>
    /\ UNCHANGED nonWriterVars

\* write(fileName, Brdf, dataType, comments).  A valid grid of another
\* representation is resampled to at least 19 x 91 x 73 cells, which is
\* beyond enumeration: such a grid is written only when validation stops
\* the call.
CallWriteBrdf ==
    /\ Fresh
    /\ heap[InputId].kind = "Specular" \/ ~validate(heap[InputId].ss)
    /\ \E dataType \in DataTypes, comments \in CommentTexts, d \in Destinations :
          \E w \in {writeBrdf(heap, InputId, d.before, d.openable, dataType,
                              comments, <<>>)} :
              /\ call' = [name |-> "writeBrdf", id |-> InputId,
                          dataType |-> dataType, comments |-> comments,
                          openable |-> d.openable, fileBefore |-> d.before]
              /\ file' = w.file
              /\ result' = w.ok
              /\ heap' = w.heap
              /\ trace' = w.trace
    /\ ret' = NoObject
    /\ stream' = <<>>
    /\ UNCHANGED arrangedId
    /\ UNCHANGED nonWriterVars

WriterNext ==
    \/ CallValidate
    \/ CallConvert
    \/ CallArrange
    \/ CallOutput
    \/ CallOutputOlder
    \/ CallWriteSpecular
    \/ CallWriteBrdf

SpecWriter == WriterInit /\ [][WriterNext]_vars

(***************************************************************************)
(* reflectance_model_utility::setupTabularBrdf.  The loop over i2 is an    *)
(* OpenMP parallel for with schedule(dynamic): each iteration is handed to *)
(* one thread of the team, in no fixed order; inDir, outDir, values, sp,   *)
(* i0, i1 and i3 are private to a thread.                                  *)
(***************************************************************************)
Threads == 1..NumThreads

SupportedAnyColorModel(cm) == TRUE
SupportedColorModel(cm) == cm = "RGB_MODEL" \/ cm = "MONOCHROMATIC_MODEL"

\* The storage of thread t's sp.
SlotShared(t) == 1
SlotOf(t) == t

\* getInOutDirection: the directions of a cell, given by its four angles.
getInOutDirection(s, i0, i1, i2, i3) ==
    [inTheta |-> s.angles0[i0 + 1], inPhi |-> s.angles1[i1 + 1],
     specTheta |-> s.angles2[i2 + 1], specPhi |-> s.angles3[i3 + 1]]

\* isDownwardDir: the outgoing direction points below the surface.
isDownwardDir(dir) == dir.inTheta + dir.specTheta > MAX_ANGLE0 /\ dir.specPhi = 0

\* ReflectanceModel::getBrdfValue, after the sign change of outDir.z for
\* transmittance data: three finite values.
getBrdfValue(dir, dataType) ==
    LET v == (dir.inTheta + 2 * dir.specTheta + 3 * dir.specPhi) \div Deg(45)
             + (IF dataType = "BTDF_DATA" THEN 1 ELSE 0)
    IN  <<3 * v, 3 * v + 3, 3 * v + 6>>

\* The spectrum stored for a cell.
CellSpectrum(cm, dir, dataType, maxValue) ==
    LET values == getBrdfValue(dir, dataType)
    IN  IF cm = "RGB_MODEL"
        THEN [k \in 1..3 |-> Min(values[k], maxValue)]
        ELSE <<Min((values[1] + values[2] + values[3]) \div 3, maxValue)>>

\* The inner loops over i0, i1 and i3, in order.
Nest(s) ==
    [k \in 1..(getNumAngles0(s) * getNumAngles1(s) * getNumAngles3(s)) |->
        [i0 |-> (k - 1) \div (getNumAngles1(s) * getNumAngles3(s)),
         i1 |-> ((k - 1) \div getNumAngles3(s)) % getNumAngles1(s),
         i3 |-> (k - 1) % getNumAngles3(s)]]

Skipped(s, a, i0, i1, i2, i3) ==
    a.backSideFillable /\ isDownwardDir(getInOutDirection(s, i0, i1, i2, i3))

\* fillBackSide: the cells of downward directions are filled with zero.
fillBackSide(s) ==
    [s EXCEPT !.spectra =
        MakeSpectra(getNumAngles0(s), getNumAngles1(s), getNumAngles2(s),
                    getNumAngles3(s),
            LAMBDA i0, i1, i2, i3 :
                IF isDownwardDir(getInOutDirection(s, i0, i1, i2, i3))
                THEN Zero(Len(getSpectrum(s, i0, i1, i2, i3)))
                ELSE getSpectrum(s, i0, i1, i2, i3))]

\* The loop run by one thread: iteration i2 from cell k of the nest on.
RECURSIVE SequentialLoop(_, _, _, _)
SequentialLoop(s, a, i2, k) ==
    IF i2 >= getNumAngles2(s) THEN s
    ELSE IF k > Len(Nest(s)) THEN SequentialLoop(s, a, i2 + 1, 1)
    ELSE LET c == Nest(s)[k]
         IN  IF Skipped(s, a, c.i0, c.i1, i2, c.i3)
             THEN SequentialLoop(s, a, i2, k + 1)
             ELSE SequentialLoop(
                      setSpectrum(s, c.i0, c.i1, i2, c.i3,
                          CellSpectrum(s.colorModel,
                                       getInOutDirection(s, c.i0, c.i1, i2, c.i3),
                                       a.dataType, a.maxValue)),
                      a, i2, k + 1)

\* setupTabularBrdf run by one thread: <returned value, grid>
setupTabularBrdf(s, a) ==
    IF ~SupportedColorModel(s.colorModel) THEN [ok |-> FALSE, ss |-> s]
    ELSE LET looped == Stored(SequentialLoop(s, a, 0, 1))
         IN  [ok |-> TRUE,
              ss |-> IF a.backSideFillable THEN Stored(fillBackSide(looped))
                     ELSE looped]

\* The grids handed to setupTabularBrdf: as constructed, with their axes set.
MaxValues == {4, 1000}

TabularGrid(a0, n2, a3, cm) ==
    LET n == CtorNumWavelengths(cm, MaxWavelengths)
    IN  updateAngleAttributes(
          [EmptySampleSet EXCEPT
              !.angles0 = a0, !.angles1 = <<0>>,
              !.angles2 = Explicit(LinSpaced(n2, 0, MAX_ANGLE2)), !.angles3 = a3,
              !.colorModel = cm,
              !.wavelengths = IF cm = "SPECTRAL_MODEL"
                              THEN [i \in 1..n |-> 400 + 100 * i]
                              ELSE Zero(n),
              !.spectra = [k \in 1..(Len(a0) * n2 * Len(a3)) |-> Zero(n)]])

IdleThread == [pc |-> "idle", i2 |-> 0, k |-> 0]

SetupInit ==
    /\ \E a0 \in {<<0>>, <<0, Deg(90)>>}, n2 \in 1..MaxSlices,
          a3 \in {<<0>>, <<0, Deg(180)>>}, cm \in ColorModels,
          dataType \in DataTypes, fillable \in BOOLEAN, maxValue \in MaxValues :
          /\ tab = TabularGrid(a0, n2, a3, cm)
          /\ tabArgs = [dataType |-> dataType, maxValue |-> maxValue,
                        backSideFillable |-> fillable,
                        before |-> TabularGrid(a0, n2, a3, cm)]
          /\ owner = [i \in 1..n2 |-> 0]
          /\ written = [c \in 1..(Len(a0) * n2 * Len(a3)) |-> <<>>]
    /\ tabPc = "called"
    /\ pending = {}
    /\ thread = [t \in Threads |-> IdleThread]
    /\ spSlot = [t \in Threads |-> <<>>]
    /\ tabRet = FALSE
    /\ SampleSetIdle
    /\ WriterIdle
    /\ UtilIdle

\* The color-model check: return false, or enter the parallel region.
CheckColorModel ==
    /\ tabPc = "called"
    /\ IF ~SupportedColorModel(tab.colorModel)
       THEN /\ tabPc' = "returned"
            /\ tabRet' = FALSE
            /\ UNCHANGED pending
       ELSE /\ tabPc' = "loop"
            /\ pending' = 0..(getNumAngles2(tab) - 1)
            /\ UNCHANGED tabRet
    /\ UNCHANGED <<tab, tabArgs, thread, spSlot, owner, written>>
    /\ UNCHANGED nonSetupVars

\* The thread after the cell it is at: the next cell of the nest, or the end
\* of its iteration.
Advanced(th) ==
    IF th.k < Len(Nest(tab)) THEN [th EXCEPT !.pc = "compute", !.k = th.k + 1]
    ELSE [th EXCEPT !.pc = "idle"]

\* The schedule hands an iteration to a thread that has none.
TakeIteration(t) ==
    /\ tabPc = "loop"
    /\ thread[t].pc = "idle"
    /\ \E i2 \in pending :
          /\ pending' = pending \ {i2}
          /\ owner' = [owner EXCEPT ![i2 + 1] = t]
          /\ thread' = [thread EXCEPT ![t] = [pc |-> "compute", i2 |-> i2, k |-> 1]]
    /\ UNCHANGED <<tab, tabArgs, tabPc, spSlot, written, tabRet>>
    /\ UNCHANGED nonSetupVars

\* The body of the nest up to the assignment of sp, or the continue.
ComputeCell(t) ==
    /\ tabPc = "loop"
    /\ thread[t].pc = "compute"
    /\ LET c == Nest(tab)[thread[t].k]
           dir == getInOutDirection(tab, c.i0, c.i1, thread[t].i2, c.i3)
       IN  IF Skipped(tab, tabArgs, c.i0, c.i1, thread[t].i2, c.i3)
           THEN /\ thread' = [thread EXCEPT ![t] = Advanced(thread[t])]
                /\ UNCHANGED spSlot
           ELSE /\ spSlot' = [spSlot EXCEPT ![SlotOf(t)] =
                                 CellSpectrum(tab.colorModel, dir,
                                              tabArgs.dataType, tabArgs.maxValue)]
                /\ thread' = [thread EXCEPT ![t].pc = "store"]
    /\ UNCHANGED <<tab, tabArgs, tabPc, pending, owner, written, tabRet>>
    /\ UNCHANGED nonSetupVars

\* ss->setSpectrum(i0, i1, i2, i3, sp)
StoreCell(t) ==
    /\ tabPc = "loop"
    /\ thread[t].pc = "store"
    /\ LET c == Nest(tab)[thread[t].k]
           at == getIndex(tab, c.i0, c.i1, thread[t].i2, c.i3) + 1
       IN  /\ tab' = setSpectrum(tab, c.i0, c.i1, thread[t].i2, c.i3,
                                 spSlot[SlotOf(t)])
           /\ written' = [written EXCEPT ![at] = Append(@, t)]
    /\ thread' = [thread EXCEPT ![t] = Advanced(thread[t])]
    /\ UNCHANGED <<tabArgs, tabPc, pending, spSlot, owner, tabRet>>
    /\ UNCHANGED nonSetupVars

\* The end of the parallel region, fillBackSide, and the return.
FinishSetup ==
    /\ tabPc = "loop"
    /\ pending = {}
    /\ \A t \in Threads : thread[t].pc = "idle"
    /\ IF tabArgs.backSideFillable
       THEN /\ tab' = Stored(fillBackSide(tab))
            /\ written' =
                  MakeSpectra(getNumAngles0(tab), getNumAngles1(tab),
                              getNumAngles2(tab), getNumAngles3(tab),
                      LAMBDA i0, i1, i2, i3 :
                          IF isDownwardDir(getInOutDirection(tab, i0, i1, i2, i3))
                          THEN Append(written[getIndex(tab, i0, i1, i2, i3) + 1], 0)
                          ELSE written[getIndex(tab, i0, i1, i2, i3) + 1])
       ELSE UNCHANGED <<tab, written>>
    /\ tabPc' = "returned"
    /\ tabRet' = TRUE
    /\ UNCHANGED <<tabArgs, pending, thread, spSlot, owner>>
    /\ UNCHANGED nonSetupVars

SetupNext ==
    \/ CheckColorModel
    \/ \E t \in Threads : TakeIteration(t) \/ ComputeCell(t) \/ StoreCell(t)
    \/ FinishSetup

SpecSetup == SetupInit /\ [][SetupNext]_vars

(***************************************************************************)
(* The array utilities and the one-sidedness computation, each called once *)
(* on arguments drawn from small sets.                                     *)
(***************************************************************************)
\* Arrays handed to isEqualInterval: every array of up to MaxLen elements.
ArrayValues == -2..4

RECURSIVE ArraysOfLength(_)
ArraysOfLength(n) ==
    IF n = 0 THEN {<<>>}
    ELSE {Append(a, v) : a \in ArraysOfLength(n - 1), v \in ArrayValues}

Arrays == UNION {ArraysOfLength(n) : n \in 0..MaxLen}

\* Azimuth axes in fine units: ascending, up to MaxLen samples, with values
\* on, next to and away from 0, pi and 2*pi.
AxisValues ==
    {0, EPSILON_F, Fine(Deg(10)), Fine(Deg(90)), Fine(Deg(170)),
     Fine(Deg(180)) - 1, Fine(Deg(180)), Fine(Deg(180)) + 1,
     Fine(Deg(190)), Fine(Deg(270)), Fine(Deg(350)),
     Fine(Deg(360)) - 1, Fine(Deg(360))}

Axes ==
    {SortedSeq(S) : S \in {T \in SUBSET AxisValues :
                              Cardinality(T) \in 1..MaxLen}}

\* Arguments of createExponential: the maximum is a multiple of
\* (n - 1)^exponent, so that every element is a whole number.
Exponents == 1..3
ExponentialArguments ==
    {[n |-> n, max |-> k * (IF n = 1 THEN 1 ELSE Pow(n - 1, e)), exponent |-> e] :
        n \in 1..(MaxLen + 1), k \in 1..2, e \in Exponents}

UtilInputs ==
    {[NoArguments EXCEPT !.kind = "array", !.arr = a] : a \in Arrays}
    \cup {[NoArguments EXCEPT !.kind = "axis3", !.arr = a] : a \in Axes}
    \cup {[NoArguments EXCEPT !.kind = "exponential", !.n = x.n, !.max = x.max,
                              !.exponent = x.exponent] :
             x \in ExponentialArguments}

UtilInit ==
    /\ utilIn \in UtilInputs
    /\ utilCall = "none"
    /\ utilOut = <<>>
    /\ SampleSetIdle
    /\ WriterIdle
    /\ SetupIdle

CallIsEqualInterval ==
    /\ utilCall = "none"
    /\ utilIn.kind = "array"
    /\ utilCall' = "isEqualInterval"
    /\ utilOut' = isEqualInterval(utilIn.arr)
    /\ UNCHANGED utilIn
    /\ UNCHANGED nonUtilVars

CallCreateExponential ==
    /\ utilCall = "none"
    /\ utilIn.kind = "exponential"
    /\ utilCall' = "createExponential"
    /\ utilOut' = createExponential(utilIn.n, utilIn.max, utilIn.exponent)
    /\ UNCHANGED utilIn
    /\ UNCHANGED nonUtilVars

CallUpdateOneSide ==
    /\ utilCall = "none"
    /\ utilIn.kind = "axis3"
    /\ utilCall' = "updateOneSide"
    /\ utilOut' = oneSide(utilIn.arr)
    /\ UNCHANGED utilIn
    /\ UNCHANGED nonUtilVars

UtilNext == CallIsEqualInterval \/ CallCreateExponential \/ CallUpdateOneSide

SpecUtil == UtilInit /\ [][UtilNext]_vars

(***************************************************************************)
(* Properties of lb::SampleSet.                                            *)
(***************************************************************************)
AllSpectraHaveLength(s, n) == \A i \in 1..Len(s.spectra) : Len(s.spectra[i]) = n

\* C8 (as stated): after construction and after any sequence of resizeAngles,
\* resizeWavelengths and setSpectrum calls, the sample array holds
\* |axis0| x |axis1| x |axis2| x |axis3| vectors and every vector has the
\* length of the wavelength axis.
C8_SizesAlways ==
    ssState = "live" =>
        /\ Len(ss.spectra) = NumSamples(ss)
        /\ AllSpectraHaveLength(ss, getNumWavelengths(ss))

\* C8 (amended): the sample array always holds |axis0| x |axis1| x |axis2| x
\* |axis3| vectors, and every vector has the length of the wavelength axis
\* unless resizeAngles has run since the last resizeWavelengths.
C8_SizesUnlessStale ==
    ssState = "live" =>
        /\ Len(ss.spectra) = NumSamples(ss)
        /\ ~ssStale => AllSpectraHaveLength(ss, getNumWavelengths(ss))

\* resizeWavelengths has just repaired a grid that resizeAngles left with
\* empty vectors, changing the channel count.
C8_Witness ==
    /\ ssState = "live"
    /\ ssLast.op = "resizeWavelengths"
    /\ \E i \in 1..Len(ssLast.before) : ssLast.before[i] = <<>>
    /\ \E i \in 1..Len(ssLast.before) :
          Len(ssLast.before[i]) \notin {0, getNumWavelengths(ss)}
    /\ NumSamples(ss) > 1

\* C9: immediately after resizeAngles every cell of the sample array is an
\* empty vector; none retains a value stored before the call.
C9_ResizeAnglesDiscards ==
    ssLast.op = "resizeAngles" =>
        \A i \in 1..Len(ss.spectra) : ss.spectra[i] = <<>>

\* C10: a constructor call with four positive axis sizes yields n0*n1*n2*n3
\* cells, each a zero vector of the wavelength-axis size, which is 1 for
\* Monochromatic, 3 for RGB and XYZ and numWavelengths for Spectral; a
\* non-positive axis size aborts the call and leaves no object.
C10_Constructor ==
    ssLast.op = "construct" =>
        LET n0 == ssArgs[1]
            n1 == ssArgs[2]
            n2 == ssArgs[3]
            n3 == ssArgs[4]
            cm == ssArgs[5]
            nw == ssArgs[6]
            size == CASE cm = "MONOCHROMATIC_MODEL" -> 1
                      [] cm = "RGB_MODEL" -> 3
                      [] cm = "XYZ_MODEL" -> 3
                      [] cm = "SPECTRAL_MODEL" -> nw
        IN  /\ (n0 > 0 /\ n1 > 0 /\ n2 > 0 /\ n3 > 0 /\ size > 0) =>
                  /\ ssState = "live"
                  /\ Len(ss.spectra) = n0 * n1 * n2 * n3
                  /\ getNumWavelengths(ss) = size
                  /\ \A i \in 1..Len(ss.spectra) :
                        /\ Len(ss.spectra[i]) = size
                        /\ \A k \in 1..size : ss.spectra[i][k] = 0
            /\ (n0 <= 0 \/ n1 <= 0 \/ n2 <= 0 \/ n3 <= 0) =>
                  /\ ssState = "aborted"
                  /\ ss = EmptySampleSet

\* A monochromatic grid of more than one cell has just been constructed.
C10_Witness ==
    /\ ssLast.op = "construct"
    /\ ssState = "live"
    /\ ss.colorModel = "MONOCHROMATIC_MODEL"
    /\ NumSamples(ss) = MaxAngles * MaxAngles * MaxAngles * MaxAngles
    /\ ss.spectra[1] = <<0>>

(***************************************************************************)
(* Properties of lb::DdrWriter.                                            *)
(***************************************************************************)
ExportCalls == {"writeBrdf", "writeSpecular", "output"}

\* The steps of a call that convert or arrange a grid.
PipelineSteps ==
    {"convert", "expandInTheta", "equalizeOverlappingSamples", "expandAngles",
     "copySpectraFromPhiOf0To360", "fixEnergyConservation",
     "fillSpectraAtInThetaOf90"}

\* C1: if the grid holds a non-finite value (cell, angle or wavelength), each
\* export entry point returns failure with no conversion or arrangement run,
\* nothing written to the stream, and the destination file neither created
\* nor truncated.
C1_InvalidGridFailsCleanly ==
    (call.name \in ExportCalls /\ ~validate(heap[call.id].ss)) =>
        /\ result = FALSE
        /\ \A i \in 1..Len(trace) : trace[i] \notin PipelineSteps
        /\ stream = <<>>
        /\ file = call.fileBefore

\* The passes arrange runs on a grid with numInTheta incoming-polar samples.
ExpectedPasses(numInTheta, dataType) ==
    (IF numInTheta = 1 THEN <<"expandInTheta">> ELSE <<>>)
    \o <<"equalizeOverlappingSamples", "expandAngles",
         "copySpectraFromPhiOf0To360", "fixEnergyConservation">>
    \o (IF dataType = "BTDF_DATA" THEN <<"fillSpectraAtInThetaOf90">> ELSE <<>>)

\* C2: arrange runs its passes in one fixed order, none skipped or repeated:
\* the incoming-angle expansion iff the grid has one incoming-polar sample,
\* overlap equalization, expandAngles, the copy of azimuth 0 to 360 degrees,
\* the energy-conservation fix, and the zero-fill at incoming-polar 90
\* degrees iff the data type is BTDF.
C2_ArrangeOrder ==
    /\ call.name = "arrange" =>
          trace = ExpectedPasses(getNumInTheta(heap[InputId]), call.dataType)
    /\ (call.name = "writeBrdf" /\ validate(heap[InputId].ss)) =>
          trace = <<"validate", "convert">>
                  \o ExpectedPasses(getNumInTheta(heap[InputId]), call.dataType)
                  \o (IF call.openable THEN <<"open", "validate", "output">>
                      ELSE <<"open failed">>)

\* arrange has expanded a one-sample grid of transmittance data: all six
\* passes have run.
C2_Witness ==
    /\ call.name = "arrange"
    /\ call.dataType = "BTDF_DATA"
    /\ getNumInTheta(heap[InputId]) = 1
    /\ Len(trace) = 6
    /\ getNumInTheta(heap[arrangedId]) = NumExpandedInTheta

\* C3: convert, arrange and write(fileName, Brdf, dataType, comments) leave
\* the caller's Brdf (axes, wavelengths, cells, flags) as it was, and the
\* object convert or arrange returns is distinct from it, also when the
\* one-sample expansion replaces the working copy.
C3_CallerBrdfUntouched ==
    [][ /\ heap'[InputId] = heap[InputId]
        /\ Fresh => convert(heap, InputId, <<>>).heap[InputId] = heap[InputId]
        /\ call'.name \in {"convert", "arrange"} =>
              /\ ret'.id # InputId
              /\ result' ]_vars

\* arrange has replaced its working copy by the expanded grid and returned
\* it, and the returned grid differs from the caller's.
C3_Witness ==
    /\ call.name = "arrange"
    /\ trace[1] = "expandInTheta"
    /\ arrangedId \notin {0, InputId}
    /\ heap[arrangedId].ss.spectra # heap[InputId].ss.spectra
    /\ heap[InputId].kind = "Specular"

\* Reading the written lines: the number a header keyword announces, the
\* positions of the block labels, and the values of the block at a label.
Announced(lines, kw) ==
    LET at == {i \in 1..Len(lines) : lines[i].kw = kw}
    IN  IF at = {} THEN <<>> ELSE lines[CHOOSE i \in at : TRUE].nums

LabelPositions(lines) ==
    SortedSeq({i \in 1..(Len(lines) - 1) : lines[i + 1].kw = " kbdf"})

BlockEnd(lines, from) ==
    CHOOSE j \in from..Len(lines) :
        /\ lines[j].kw = " enddef"
        /\ \A k \in from..(j - 1) : lines[k].kw # " enddef"

BlockValues(lines, label) ==
    SeqConcat([i \in 1..(BlockEnd(lines, label) - label - 4) |->
                  IF lines[label + 3 + i].kw = "" THEN lines[label + 3 + i].nums
                  ELSE <<>>])

Labels(lines) ==
    [i \in 1..Len(LabelPositions(lines)) |-> lines[LabelPositions(lines)[i]].kw]

\* The caller's grid is the RGB grid with incoming-polar {0}, incoming-azimuth
\* {0}, specular-polar {0, 45, 90} and specular-azimuth {0, 180} degrees, and
\* the arranged grid has been written to the stream.
EndToEndExample ==
    /\ call.name = "output"
    /\ call.id = arrangedId
    /\ arrangedId # 0
    /\ heap[InputId].kind = "Specular"
    /\ heap[InputId].ss.colorModel = "RGB_MODEL"
    /\ heap[InputId].ss.angles0 = <<0>>
    /\ heap[InputId].ss.angles1 = <<0>>
    /\ heap[InputId].ss.angles2 = <<0, Deg(45), Deg(90)>>
    /\ heap[InputId].ss.angles3 = <<0, Deg(180)>>
    /\ validate(heap[InputId].ss)

C5_EmittedNonNegative ==
    (call.name = "output" /\ result) =>
        \A p \in 1..Len(LabelPositions(stream)) :
            LET vals == BlockValues(stream, LabelPositions(stream)[p])
            IN  \A k \in 1..Len(vals) : vals[k] >= 0

(***************************************************************************)
(* Properties of setupTabularBrdf.                                         *)
(***************************************************************************)
\* The iteration (value of i2) that cell number at of the sample array is in.
SliceOf(s, at) ==
    ((at - 1) \div (getNumAngles0(s) * getNumAngles1(s))) % getNumAngles2(s)

\* C6: while setupTabularBrdf fills the grid in parallel, each cell is
\* written at most once and only by the thread its slice i2 was handed to,
\* the sample array keeps its size, and the grid returned is the one a
\* sequential run produces, under every schedule and interleaving.
C6_DisjointSlices ==
    tabPc \in {"loop", "returned"} =>
        /\ Len(tab.spectra) = Len(tabArgs.before.spectra)
        /\ \A at \in 1..Len(written) :
              /\ Len(written[at]) <= 1
              /\ \A j \in 1..Len(written[at]) :
                    \/ written[at][j] = owner[SliceOf(tab, at) + 1]
                       /\ written[at][j] \in Threads
                    \/ written[at][j] = 0 /\ tabPc = "returned"
        /\ (tabPc = "returned" /\ tabRet) =>
              tab = setupTabularBrdf(tabArgs.before, tabArgs).ss

\* The call has returned a grid whose slices were filled by different
\* threads, with values that differ from cell to cell.
C6_Witness ==
    /\ tabPc = "returned"
    /\ tabRet
    /\ \E i, j \in 1..Len(owner) : owner[i] # owner[j] /\ owner[i] # 0 /\ owner[j] # 0
    /\ \E a, b \in 1..Len(written) :
          /\ written[a] # <<>> /\ written[b] # <<>>
          /\ written[a] # written[b]
          /\ tab.spectra[a] # tab.spectra[b]

\* C7: on a grid whose color model is neither RGB nor monochromatic,
\* setupTabularBrdf returns false with every cell, axis and flag unchanged;
\* neither the sampling loop nor the back-side fill has run.
C7_UnsupportedColorModel ==
    (tabPc = "returned"
     /\ tabArgs.before.colorModel \in {"XYZ_MODEL", "SPECTRAL_MODEL"}) =>
        /\ tabRet = FALSE
        /\ tab = tabArgs.before
        /\ \A at \in 1..Len(written) : written[at] = <<>>
        /\ \A i \in 1..Len(owner) : owner[i] = 0
        /\ \A t \in Threads : thread[t] = IdleThread /\ spSlot[t] = <<>>

\* The call has returned on a spectral grid of several cells.
C7_Witness ==
    /\ tabPc = "returned"
    /\ tab.colorModel = "SPECTRAL_MODEL"
    /\ tabArgs.backSideFillable
    /\ Len(tab.spectra) > 1
    /\ ~tabRet

(***************************************************************************)
(* Properties of SampleSet::validate and of the derived flags.             *)
(***************************************************************************)
\* The non-finite values of a grid, counted independently of validate.
NonFiniteCells(s) ==
    {k \in 1..Len(s.spectra) :
        \E ch \in 1..Len(s.spectra[k]) : ~IsFinite(s.spectra[k][ch])}

NonFiniteAxes(s) ==
    {a \in {"angle0", "angle1", "angle2", "angle3", "wavelengths"} :
        LET arr == CASE a = "angle0" -> s.angles0
                     [] a = "angle1" -> s.angles1
                     [] a = "angle2" -> s.angles2
                     [] a = "angle3" -> s.angles3
                     [] a = "wavelengths" -> s.wavelengths
        IN  \E i \in 1..Len(arr) : ~IsFinite(arr[i])}

Count(seq, S) == Cardinality({i \in 1..Len(seq) : seq[i] \in S})

\* C11: validate returns true iff every cell, the four angle axes and the
\* wavelength axis hold only finite values; it scans every cell and every
\* axis without stopping at the first failure (one warning per non-finite
\* cell, one line per axis), and it changes nothing in the grid.
C11_Validate ==
    [][ call'.name = "validate" =>
          LET s == heap[InputId].ss
          IN  /\ result' = (NonFiniteCells(s) = {} /\ NonFiniteAxes(s) = {})
              /\ Count(trace', {"spectrum NaN", "spectrum INF"})
                    = Cardinality(NonFiniteCells(s))
              /\ \A a \in {"angle0", "angle1", "angle2", "angle3", "wavelengths"} :
                    Count(trace', {a \o " invalid"}) = (IF a \in NonFiniteAxes(s) THEN 1 ELSE 0)
                    /\ Count(trace', {a \o " valid"}) = (IF a \in NonFiniteAxes(s) THEN 0 ELSE 1)
              /\ heap' = heap ]_vars

\* validate has returned false on a grid with two non-finite cells and
\* three non-finite axes, and has reported all of them.
C11_Witness ==
    /\ call.name = "validate"
    /\ ~result
    /\ Cardinality(NonFiniteCells(heap[InputId].ss)) = 2
    /\ Cardinality(NonFiniteAxes(heap[InputId].ss)) = 3
    /\ Len(trace) = 8

(***************************************************************************)
(* Properties of the one-sidedness flag and of the array utilities.        *)
(***************************************************************************)
Between(arr, low, high) == \E i \in 1..Len(arr) : arr[i] > low /\ arr[i] < high

OnlyIn(arr, S) == \A i \in 1..Len(arr) : arr[i] \in S

Pi == Fine(Deg(180))

\* C12 as stated: the flag is true exactly when the axis does not hold both
\* a value in the open interval (0, pi) and a value in (pi, 2*pi).
C12_OneSideOpenIntervals ==
    utilCall = "updateOneSide" =>
        utilOut = ~(Between(utilIn.arr, 0, Pi) /\ Between(utilIn.arr, Pi, 2 * Pi))

\* C12, amended: the flag is true exactly when the axis does not hold both a
\* value strictly inside (e, pi - e*pi) and a value strictly inside
\* (pi + e*pi, 2*pi - e*2*pi), with e = 2 * EPSILON_F; an axis with values
\* only in (0 deg, 170 deg) is one-sided, one with values in both
\* (10 deg, 170 deg) and (190 deg, 350 deg) is not, and one made only of 0, pi
\* and 2*pi is one-sided.
C12_OneSideWithTolerance ==
    utilCall = "updateOneSide" =>
        LET axis == utilIn.arr
            e == 2 * EPSILON_F
            ePi == (e * PI_F) \div FixedOne
        IN  /\ utilOut = ~(/\ Between(axis, e, Pi - ePi)
                           /\ Between(axis, Pi + ePi, 2 * Pi - 2 * ePi))
            /\ OnlyIn(axis, (1..(Fine(Deg(170)) - 1))) => utilOut = TRUE
            /\ (/\ Between(axis, Fine(Deg(10)), Fine(Deg(170)))
                /\ Between(axis, Fine(Deg(190)), Fine(Deg(350)))) => utilOut = FALSE
            /\ OnlyIn(axis, {0, Pi, 2 * Pi}) => utilOut = TRUE

\* An axis with a sample closer to 0 than the tolerance and a sample well
\* inside (pi, 2*pi) has been flagged one-sided.
C12_Witness ==
    /\ utilCall = "updateOneSide"
    /\ utilIn.arr = <<EPSILON_F, Fine(Deg(270))>>
    /\ utilOut = TRUE

Multiples(n, c) == [i \in 1..n |-> (i - 1) * c]

Coefficients == -2..4

Ascending(arr) == \A i \in 1..(Len(arr) - 1) : arr[i] < arr[i + 1]

Linear(n, max) == [i \in 1..n |-> ((i - 1) * max) \div (n - 1)]

ExponentialAsClaimed(n, max, exponent, out) ==
    /\ Len(out) = n
    /\ Ascending(out)
    /\ out[1] = 0
    /\ out[n] = max
    /\ exponent = 1 => out = Linear(n, max)
    /\ exponent > 1 => \A i \in 2..(n - 1) : out[i] < Linear(n, max)[i]

AxisLengths(s) ==
    <<getNumAngles0(s), getNumAngles1(s), getNumAngles2(s), getNumAngles3(s)>>

Flags(s) ==
    <<s.equalIntervalAngles0, s.equalIntervalAngles1, s.equalIntervalAngles2,
      s.equalIntervalAngles3, s.oneSide>>

\* C13: the four equal-interval flags and the one-sidedness flag are
\* written only by updateAngleAttributes: construction sets all five to false,
\* resizeAngles, resizeWavelengths, setSpectrum and validate leave them as
\* they are, and updateAngleAttributes stores what it computes from the axes
\* (no equal-interval flag for an axis of at most two samples, one-sided for
\* a single-sample axis3), so the flags are those of the most recent
\* updateAngleAttributes, or false, whatever the axes hold now.
C13_FlagsWrittenOnlyByUpdate ==
    [][ /\ ssLast'.op = "construct" /\ ssState' = "live" =>
              Flags(ss') = <<FALSE, FALSE, FALSE, FALSE, FALSE>>
        /\ ssLast'.op \in {"resizeAngles", "resizeWavelengths", "setSpectrum",
                           "validate"} =>
              Flags(ss') = Flags(ss)
        /\ ssLast'.op = "updateAngleAttributes" =>
              /\ \A k \in 1..4 : Flags(ss')[k] => AxisLengths(ss)[k] > 2
              /\ getNumAngles3(ss) = 1 => ss'.oneSide ]_vars

\* The flag set by updateAngleAttributes on a single-sample axis3 is still
\* set after resizeAngles has given the axis two samples.
C13_Witness ==
    /\ ssLast.op = "resizeAngles"
    /\ ss.oneSide
    /\ getNumAngles3(ss) = 2
    /\ Len(ssLast.before) = 1

(***************************************************************************)
(* Properties of DdrWriter::convert and of the body of the output.         *)
(***************************************************************************)
\* C16: convert picks one of three strategies from the class of its input
\* and always returns a new object: a SpecularCoordinatesBrdf gives a copy
\* with the same axis sizes; a SphericalCoordinatesBrdf gives
\* max(axis-2 size, 181) specular-polar and max(axis-3 size, 73)
\* specular-azimuth samples; any other Brdf gives 19 incoming-polar samples,
\* 1 incoming-azimuth sample if it has one axis-1 sample and 37 otherwise,
\* 91 specular-polar samples on the exponent-2 warp of 0..90 degrees, and 73
\* specular-azimuth samples.
C16_ConvertStrategies ==
    [][ call'.name = "convert" =>
          LET b == heap[InputId]
              sizes == <<getNumAngles0(b.ss), getNumAngles1(b.ss),
                         getNumAngles2(b.ss), getNumAngles3(b.ss)>>
              got == <<ret'.numInTheta, ret'.numInPhi,
                       ret'.numSpecTheta, ret'.numSpecPhi>>
          IN  /\ result'
              /\ ret'.id \notin {i \in 1..Len(heap) : heap[i].kind # "Freed"}
              /\ b.kind = "Specular" => got = sizes
              /\ b.kind = "Spherical" =>
                    /\ got[3] = (IF sizes[3] > 181 THEN sizes[3] ELSE 181)
                    /\ got[4] = (IF sizes[4] > 73 THEN sizes[4] ELSE 73)
              /\ b.kind \notin {"Specular", "Spherical"} =>
                    /\ got = <<19, IF sizes[2] = 1 THEN 1 ELSE 37, 91, 73>>
                    /\ \A i \in 1..91 :
                          ret'.specTheta[i] * Deg(90) = Pow((i - 1) * Deg(1), 2) ]_vars

\* convert has resampled a Brdf that is neither specular nor spherical and
\* has two incoming-azimuth samples.
C16_Witness ==
    /\ call.name = "convert"
    /\ heap[InputId].kind = "Generic"
    /\ getNumAngles1(heap[InputId].ss) = 2
    /\ ret.numInPhi = 37
    /\ ret.numSpecTheta = 91
    /\ ret.specTheta[2] = 1

\* The channel labels the TypeColorModel line of the header calls for.
AnnouncedLabels(lines) ==
    IF \E i \in 1..Len(lines) : lines[i].kw = "TypeColorModel BW"
    THEN <<"bw">>
    ELSE IF \E i \in 1..Len(lines) : lines[i].kw = "TypeColorModel RGB"
    THEN <<"red", "green", "blue">>
    ELSE [i \in 1..Announced(lines, "TypeColorModel spectral")[1] |-> "wl"]

Serialized ==
    /\ call.name \in {"output", "outputOlder"}
    /\ validate(heap[call.id].ss)
    /\ result

\* C17: for every valid grid that output writes, the body agrees with the
\* header: one block labelled bw for BW, three blocks labelled red, green,
\* blue in that order for RGB, N blocks labelled wl for spectral N; each
\* block holds (incoming-azimuth count) x (incoming-polar count) x
\* (specular-azimuth count) x (specular-polar count) values; and the psi
\* section is present exactly when the grid is not isotropic.
C17_BodyAgreesWithHeader ==
    Serialized =>
        LET b == heap[call.id]
        IN  /\ Labels(stream) = AnnouncedLabels(stream)
            /\ \A w \in 1..Len(LabelPositions(stream)) :
                  Len(BlockValues(stream, LabelPositions(stream)[w]))
                    = getNumInPhi(b) * getNumInTheta(b)
                      * getNumSpecPhi(b) * getNumSpecTheta(b)
            /\ (\E i \in 1..Len(stream) : stream[i].kw = "psi")
                  <=> ~isIsotropic(b.ss)

====
